---- MODULE Spec2Model ----
(***************************************************************************)
(* Model of src/protocol-integration.js: the ProtocolIntegration widget    *)
(* (fetch / render / auto-refresh / modal) and its helpers.                *)
(*                                                                         *)
(* Three specifications share the variables:                               *)
(*   Spec       the refresh life cycle: init, refresh, start/stop of the   *)
(*              interval timer, timer ticks, and the asynchronous steps    *)
(*              of loadProtocolData (fetch, json, digest);                 *)
(*   ModalSpec  the renderers' cached sequences and the modal;             *)
(*   SortSpec   updateProjects applied once to every bounded seeds array.  *)
(***************************************************************************)
EXTENDS Integers, Sequences, FiniteSets, Bags, TLC

VARIABLES
    page,            \* ids of the mount points the host page provides
    data,            \* this.data
    lastUpdate,      \* this.lastUpdate: "null" or "set"
    refreshTimer,    \* this.refreshTimer: 0 (null) or an interval handle
    timers,          \* the event loop's live intervals: handle -> time to the next firing
    runs,            \* bag of the loadProtocolData calls suspended at an await
    dom,             \* innerHTML of the five mount points
    cachedSeeds,     \* this.cachedSeeds
    cachedContexts,  \* this.cachedContexts
    modal,           \* #pm-modal: body innerHTML, style.display, body overflow, handlers
    last,            \* the operation of the last step and how it ended
    calc             \* one call of a helper: its arguments and what it returned

vars == <<page, data, lastUpdate, refreshTimer, timers, runs, dom,
          cachedSeeds, cachedContexts, modal, last, calc>>

----------------------------------------------------------------------------
(* Bounds *)

MaxInFlight == 2       \* loadProtocolData calls in flight together
MaxTimers == 2         \* interval handles the event loop can hand out
RefreshInterval == 2   \* config.refreshInterval, in clock steps
MaxSeeds == 6          \* longest seeds array of SortSpec
MaxListeners == 3      \* keydown listeners counted on the document
MaxIndex == 2          \* largest index handed to openModal

(* Program constants *)

TopCount == 5          \* .slice(0, 5)
DefaultRank == 3       \* || 3

----------------------------------------------------------------------------
(* Values *)

Mounts == {"pm-current-state", "pm-about", "pm-projects", "pm-expertise",
           "pm-last-updated"}
Sections == Mounts \ {"pm-last-updated"}

Priorities == {"urgent", "high", "normal", "low", "other"}

\* An array-valued payload field: kind "absent" (undefined), "array", or
\* "other" (a JSON value that is no array and has no length: a number, an object).
Absent == [kind |-> "absent", items |-> <<>>]
NonArray == [kind |-> "other", items |-> <<>>]
Arr(items) == [kind |-> "array", items |-> items]

Seed(i, p) == [id |-> i, priority |-> p]
Ctx(i) == [id |-> i, priority |-> "other"]

\* JSON null as a body, and this.data before the first fetch
NullData == [kind |-> "null", id |-> 0, current_state |-> "", avatar_url |-> "",
             email |-> "", seeds |-> Absent, contexts |-> Absent]

Doc(i, cs, url, mail, seeds, contexts) ==
    [kind |-> "object", id |-> i, current_state |-> cs, avatar_url |-> url,
     email |-> mail, seeds |-> seeds, contexts |-> contexts]

\* The bodies response.json() can resolve to in Spec
Doc1 == Doc(1, "cs1", "url1", "a@x", Arr(<<Seed(1, "low"), Seed(2, "urgent")>>), Arr(<<Ctx(1)>>))
Doc2 == Doc(2, "cs2", "", "b@x", Arr(<<Seed(3, "normal"), Seed(4, "high")>>), Arr(<<>>))
Doc3 == Doc(3, "", "", "", NonArray, NonArray)
Doc4 == Doc(4, "", "", "", Arr(<<Seed(5, "high")>>), NonArray)
Bodies == {NullData, Doc1, Doc2, Doc3, Doc4}

\* innerHTML of a mount point, as the view it shows
Static == [kind |-> "static", src |-> 0, items |-> <<>>, avatar |-> "", of |-> ""]
View(k, src, items, avatar, of) ==
    [kind |-> k, src |-> src, items |-> items, avatar |-> avatar, of |-> of]

\* this.cachedSeeds / this.cachedContexts before the first render
Undefined == [kind |-> "undefined", items |-> <<>>]

----------------------------------------------------------------------------
(* The instance state and the DOM the renderers work on, as one value.     *)
(* threw: an exception is propagating.                                     *)

St == [data |-> data, lastUpdate |-> lastUpdate, dom |-> dom,
       cachedSeeds |-> cachedSeeds, cachedContexts |-> cachedContexts,
       threw |-> FALSE]

Apply(s) ==
    /\ data' = s.data
    /\ lastUpdate' = s.lastUpdate
    /\ dom' = s.dom
    /\ cachedSeeds' = s.cachedSeeds
    /\ cachedContexts' = s.cachedContexts

Throw(s) == [s EXCEPT !.threw = TRUE]

\* element.innerHTML = view, for a mount point the page has
SetHtml(s, mount, view) == [s EXCEPT !.dom[mount] = view]

----------------------------------------------------------------------------
(* updateProjects: the sort and the slice *)

priorityOrder == [urgent |-> 0, high |-> 1, normal |-> 2, low |-> 3]

\* priorityOrder[p] || 3 : undefined and 0 are both falsy
rankOf(p) ==
    IF p \in DOMAIN priorityOrder /\ priorityOrder[p] # 0
    THEN priorityOrder[p]
    ELSE DefaultRank

\* the comparator handed to Array.prototype.sort
compareSeeds(a, b) == rankOf(a.priority) - rankOf(b.priority)

\* x goes before the first element it compares below: a stable insertion
RECURSIVE InsertStable(_, _)
InsertStable(x, sorted) ==
    IF sorted = <<>> THEN <<x>>
    ELSE IF compareSeeds(x, Head(sorted)) < 0 THEN <<x>> \o sorted
    ELSE <<Head(sorted)>> \o InsertStable(x, Tail(sorted))

\* Array.prototype.sort with compareSeeds (stable, ES2019)
RECURSIVE SortFrom(_, _)
SortFrom(rest, sorted) ==
    IF rest = <<>> THEN sorted
    ELSE SortFrom(Tail(rest), InsertStable(Head(rest), sorted))

sortSeeds(items) == SortFrom(items, <<>>)

\* .slice(0, n)
slice(items, n) == SubSeq(items, 1, IF Len(items) < n THEN Len(items) ELSE n)

EmptyProjects == View("empty-projects", 0, <<>>, "", "")
EmptyExpertise == View("empty-expertise", 0, <<>>, "", "")

\* seeds is this.data.seeds: sort() orders that array in place
updateProjects(s, seeds) ==
    IF "pm-projects" \notin page THEN s
    ELSE IF seeds.kind = "absent" \/ (seeds.kind = "array" /\ Len(seeds.items) = 0)
    THEN SetHtml(s, "pm-projects", EmptyProjects)
    ELSE IF seeds.kind # "array" THEN Throw(s)   \* seeds.sort is not a function
    ELSE LET sorted == sortSeeds(seeds.items)
             topSeeds == slice(sorted, TopCount)
             s1 == [s EXCEPT !.data.seeds = Arr(sorted)]
             s2 == SetHtml(s1, "pm-projects", View("projects", 0, topSeeds, "", ""))
         IN  [s2 EXCEPT !.cachedSeeds = Arr(topSeeds)]

updateExpertise(s, contexts) ==
    IF "pm-expertise" \notin page THEN s
    ELSE IF contexts.kind = "absent" \/ (contexts.kind = "array" /\ Len(contexts.items) = 0)
    THEN SetHtml(s, "pm-expertise", EmptyExpertise)
    ELSE IF contexts.kind # "array" THEN Throw(s)   \* contexts.map is not a function
    ELSE LET s1 == SetHtml(s, "pm-expertise", View("expertise", 0, contexts.items, "", ""))
         IN  [s1 EXCEPT !.cachedContexts = Arr(contexts.items)]

updateCurrentState(s, currentState) ==
    IF currentState = "" THEN s
    ELSE IF "pm-current-state" \notin page THEN s
    ELSE SetHtml(s, "pm-current-state", View("state", 0, <<>>, "", currentState))

\* GravatarHelper.getAvatarUrl for a non-empty string: the URL around the digest
getAvatarUrl(email) == [kind |-> "gravatar", of |-> email]

\* an avatar policy that derives the URL whenever there is an email
aboutAwaitsDigest_EmailFirst(s) ==
    /\ "pm-about" \in page
    /\ s.data.email # ""

\* updateAbout suspends at `await GravatarHelper.getAvatarUrl` on this path only
aboutAwaitsDigest(s) ==
    /\ "pm-about" \in page
    /\ s.data.avatar_url = ""
    /\ s.data.email # ""

\* updateAbout on the paths without a digest: no element, precomputed URL, no avatar
updateAbout(s) ==
    IF "pm-about" \notin page THEN s
    ELSE IF s.data.avatar_url # ""
    THEN SetHtml(s, "pm-about", View("about", s.data.id, <<>>, "precomputed", s.data.avatar_url))
    ELSE SetHtml(s, "pm-about", View("about", s.data.id, <<>>, "none", ""))

\* a resumed updateAbout that also stores its document as the snapshot
updateAboutResume_StoresDoc(s, doc) ==
    [SetHtml(s, "pm-about", View("about", doc.id, <<>>, "gravatar", doc.email))
        EXCEPT !.data = doc]

\* updateAbout after the digest: the fields it read from doc before the await
updateAboutResume(s, doc) ==
    LET url == getAvatarUrl(doc.email)
    IN  SetHtml(s, "pm-about", View("about", doc.id, <<>>, url.kind, url.of))

updateLastUpdatedIndicator(s) ==
    IF "pm-last-updated" \notin page THEN s
    ELSE SetHtml(s, "pm-last-updated", View("updated", 0, <<>>, "", ""))

showStaticContent(s) ==
    IF "pm-last-updated" \notin page THEN s
    ELSE SetHtml(s, "pm-last-updated", View("offline", 0, <<>>, "", ""))

----------------------------------------------------------------------------
(* The interval timer *)

Handles == 1..MaxTimers
NoTimers == [h \in {} |-> 0]

\* clearInterval(h): a handle that is not live is ignored
clearInterval(tm, h) == [x \in DOMAIN tm \ {h} |-> tm[x]]

\* setInterval as a scheduler that also fires at once
setInterval_FireNow(tm, h) ==
    [x \in DOMAIN tm \cup {h} |-> IF x = h THEN 0 ELSE tm[x]]

\* setInterval(callback, refreshInterval): the first firing is one interval away
setInterval(tm, h) ==
    [x \in DOMAIN tm \cup {h} |-> IF x = h THEN RefreshInterval ELSE tm[x]]

\* the handles setInterval can return: those of no live interval (the program
\* keeps no handle of a cleared interval, so which one it gets is immaterial)
FreshHandles(tm) == Handles \ DOMAIN tm

\* startAutoRefresh without the clearInterval of lines 453-455
startAutoRefresh_NoClear(rt, tm) ==
    LET fresh == FreshHandles(tm)
        h == IF fresh = {} THEN rt ELSE CHOOSE x \in fresh : \A y \in fresh : x <= y
    IN  [refreshTimer |-> h, timers |-> setInterval(tm, h)]

\* startAutoRefresh as a function of (this.refreshTimer, the live intervals)
startAutoRefresh(rt, tm) ==
    LET cleared == IF rt # 0 THEN clearInterval(tm, rt) ELSE tm
        fresh == FreshHandles(cleared)
        h == CHOOSE x \in fresh : \A y \in fresh : x <= y
    IN  [refreshTimer |-> h, timers |-> setInterval(cleared, h)]

\* stopAutoRefresh without line 472
stopAutoRefresh_KeepHandle(rt, tm) ==
    [refreshTimer |-> rt, timers |-> clearInterval(tm, rt)]

\* stopAutoRefresh as a function of (this.refreshTimer, the live intervals)
stopAutoRefresh(rt, tm) ==
    IF rt # 0
    THEN [refreshTimer |-> 0, timers |-> clearInterval(tm, rt)]
    ELSE [refreshTimer |-> rt, timers |-> tm]

\* the event loop has a handle left to hand out (a bound of the model)
CanStartTimer == FreshHandles(clearInterval(timers, refreshTimer)) # {}

SetTimer(t) ==
    /\ refreshTimer' = t.refreshTimer
    /\ timers' = t.timers

----------------------------------------------------------------------------
(* loadProtocolData *)

Run(origin, pc, doc) == [origin |-> origin, pc |-> pc, doc |-> doc]

\* the record kept in `last`: the operation, how it ended, and for a step of a
\* loadProtocolData call the caller of that call ("init", "refresh", "timer")
RunOp(op, outcome, origin) == [op |-> op, outcome |-> outcome, origin |-> origin]
Op(op, outcome) == RunOp(op, outcome, "")

\* lines 83-94: the call runs up to `await fetch(...)`
loadProtocolData(origin) ==
    /\ BagCardinality(runs) < MaxInFlight
    /\ runs' = runs (+) SetToBag({Run(origin, "fetching", NullData)})

\* the renderers after updateAbout with expertise before projects
afterAbout_ExpertiseFirst(s) ==
    LET s1 == IF s.data.kind = "null" THEN Throw(s)
              ELSE updateExpertise(s, s.data.contexts)
        s2 == IF s1.threw THEN s1 ELSE updateProjects(s1, s1.data.seeds)
    IN  IF s2.threw THEN s2 ELSE updateLastUpdatedIndicator(s2)

\* lines 108-110, after `await this.updateAbout(...)`: this.data is read again
afterAbout(s) ==
    LET s1 == IF s.data.kind = "null" THEN Throw(s)   \* this.data.seeds of null
              ELSE updateProjects(s, s.data.seeds)
        s2 == IF s1.threw THEN s1 ELSE updateExpertise(s1, s1.data.contexts)
    IN  IF s2.threw THEN s2 ELSE updateLastUpdatedIndicator(s2)

\* a catch block that rethrows after showing the fallback
catchBlock_Rethrow(s) == showStaticContent(s)

\* lines 112-116: the catch block consumes the exception
catchBlock(s) == [showStaticContent(s) EXCEPT !.threw = FALSE]

\* The call returns: its promise settles, and the caller that awaits it goes on
\* (init starts the timer, line 76; refresh and the timer callback do nothing more).
Settle(r, op, s) ==
    LET c == IF s.threw THEN catchBlock(s) ELSE s
        outcome == IF c.threw THEN "rejected" ELSE IF s.threw THEN "offline" ELSE "success"
    IN  /\ r.origin = "init" /\ ~c.threw => CanStartTimer
        /\ Apply(c)
        /\ runs' = runs (-) SetToBag({r})
        /\ IF r.origin = "init" /\ ~c.threw
           THEN SetTimer(startAutoRefresh(refreshTimer, timers))
           ELSE UNCHANGED <<refreshTimer, timers>>
        /\ last' = RunOp(op, outcome, r.origin)
        /\ UNCHANGED <<page, calc, modal>>

\* fetch rejects (network error)
FetchReject(r) ==
    /\ r.pc = "fetching"
    /\ Settle(r, "fetchReject", Throw(St))

\* the response is not ok: line 97 throws
FetchNotOk(r) ==
    /\ r.pc = "fetching"
    /\ Settle(r, "fetchNotOk", Throw(St))

\* the response is ok: the call suspends at `await response.json()`
FetchOk(r) ==
    /\ r.pc = "fetching"
    /\ runs' = (runs (-) SetToBag({r})) (+) SetToBag({[r EXCEPT !.pc = "parsing"]})
    /\ last' = RunOp("fetchOk", "pending", r.origin)
    /\ UNCHANGED <<page, calc, data, lastUpdate, refreshTimer, timers, dom,
                   cachedSeeds, cachedContexts, modal>>

\* the body is not valid JSON: response.json() rejects, nothing is assigned
JsonReject(r) ==
    /\ r.pc = "parsing"
    /\ Settle(r, "jsonReject", Throw(St))

\* lines 100-107: the body parses to `body`
JsonResolve(r, body) ==
    /\ r.pc = "parsing"
    /\ LET s0 == [St EXCEPT !.data = body, !.lastUpdate = "set"]
           s1 == IF body.kind = "null" THEN Throw(s0)   \* this.data.fields of null
                 ELSE updateCurrentState(s0, body.current_state)
       IN  IF s1.threw THEN Settle(r, "jsonResolve", s1)
           ELSE IF aboutAwaitsDigest(s1)
           THEN /\ Apply(s1)
                /\ runs' = (runs (-) SetToBag({r})) (+) SetToBag({Run(r.origin, "digest", body)})
                /\ last' = RunOp("jsonResolve", "pending", r.origin)
                /\ UNCHANGED <<page, calc, refreshTimer, timers, modal>>
           ELSE Settle(r, "jsonResolve", afterAbout(updateAbout(s1)))

\* crypto.subtle.digest resolves: updateAbout writes, then lines 108-110
DigestResolve(r) ==
    /\ r.pc = "digest"
    /\ Settle(r, "digestResolve", afterAbout(updateAboutResume(St, r.doc)))

\* crypto.subtle.digest is not available or rejects: updateAbout throws
DigestReject(r) ==
    /\ r.pc = "digest"
    /\ Settle(r, "digestReject", Throw(St))

----------------------------------------------------------------------------
(* The public operations and the event loop *)

NoRender == UNCHANGED <<page, calc, data, lastUpdate, dom, cachedSeeds, cachedContexts, modal>>

init ==
    /\ loadProtocolData("init")
    /\ last' = RunOp("init", "pending", "init")
    /\ UNCHANGED <<refreshTimer, timers>>
    /\ NoRender

\* a refresh that restarts the timer, as init does
refresh_RestartsTimer ==
    /\ loadProtocolData("refresh")
    /\ CanStartTimer
    /\ SetTimer(startAutoRefresh(refreshTimer, timers))
    /\ last' = RunOp("refresh", "pending", "refresh")
    /\ NoRender

refresh ==
    /\ loadProtocolData("refresh")
    /\ last' = RunOp("refresh", "pending", "refresh")
    /\ UNCHANGED <<refreshTimer, timers>>
    /\ NoRender

StartAutoRefresh ==
    /\ CanStartTimer
    /\ SetTimer(startAutoRefresh(refreshTimer, timers))
    /\ last' = Op("startAutoRefresh", IF refreshTimer # 0 THEN "restarted" ELSE "started")
    /\ UNCHANGED runs
    /\ NoRender

StopAutoRefresh ==
    /\ SetTimer(stopAutoRefresh(refreshTimer, timers))
    /\ last' = Op("stopAutoRefresh", IF refreshTimer # 0 THEN "cancelled" ELSE "noop")
    /\ UNCHANGED runs
    /\ NoRender

\* one clock step passes: no interval is due
Tick ==
    /\ DOMAIN timers # {}
    /\ \A h \in DOMAIN timers : timers[h] > 0
    /\ timers' = [h \in DOMAIN timers |-> timers[h] - 1]
    /\ last' = Op("tick", "none")
    /\ UNCHANGED <<refreshTimer, runs>>
    /\ NoRender

\* lines 457-460: the interval callback
TimerFire(h) ==
    /\ h \in DOMAIN timers
    /\ timers[h] = 0
    /\ loadProtocolData("timer")
    /\ timers' = [timers EXCEPT ![h] = RefreshInterval]
    /\ last' = RunOp("timerFire", "pending", "timer")
    /\ UNCHANGED refreshTimer
    /\ NoRender

getData == data

----------------------------------------------------------------------------
(* Spec: the refresh life cycle *)

Pages == {Mounts, Mounts \ {"pm-about"}, Mounts \ {"pm-projects", "pm-current-state"}}

\* #pm-modal as the host page ships it: hidden, no handlers.
\* el: "present", "nobody" (no .pm-modal-body inside) or "absent" (no #pm-modal)
NoItem == [id |-> 0, priority |-> ""]
ModalBody(kind, item) == [kind |-> kind, item |-> item]
ModalOf(el) == [el |-> el, body |-> ModalBody("static", NoItem), display |-> "none",
                overflow |-> "", escListeners |-> 0, closeHandlers |-> FALSE]
ModalClosed == ModalOf("present")

\* no helper call of interest has been made
NoCalc == [fn |-> "none", done |-> FALSE]

Init ==
    /\ page \in Pages
    /\ calc = NoCalc
    /\ data = NullData
    /\ lastUpdate = "null"
    /\ refreshTimer = 0
    /\ timers = NoTimers
    /\ runs = EmptyBag
    /\ dom = [m \in Mounts |-> Static]
    /\ cachedSeeds = Undefined
    /\ cachedContexts = Undefined
    /\ modal = ModalClosed
    /\ last = Op("new", "none")

Next ==
    \/ init
    \/ refresh
    \/ StartAutoRefresh
    \/ StopAutoRefresh
    \/ Tick
    \/ \E h \in Handles : TimerFire(h)
    \/ \E r \in BagToSet(runs) : FetchReject(r)
    \/ \E r \in BagToSet(runs) : FetchNotOk(r)
    \/ \E r \in BagToSet(runs) : FetchOk(r)
    \/ \E r \in BagToSet(runs) : JsonReject(r)
    \/ \E r \in BagToSet(runs) : \E body \in Bodies : JsonResolve(r, body)
    \/ \E r \in BagToSet(runs) : DigestResolve(r)
    \/ \E r \in BagToSet(runs) : DigestReject(r)

Spec == Init /\ [][Next]_vars

----------------------------------------------------------------------------
(* Claims checked under Spec *)

InFlight == BagCardinality(runs)

\* the step is the return of a loadProtocolData call through its catch block
EndsOffline == last'.outcome = "offline"

\* the indicator shows that the last completed call succeeded
ShowsUpdated == dom["pm-last-updated"].kind = "updated"

\* C1: a run of loadProtocolData that ends in the offline/fallback outcome
\* leaves getData() as it was: with a successful snapshot on display, the
\* step in which a call falls back does not change this.data.
C1_FailedFetchKeepsSnapshot ==
    [][(EndsOffline /\ ShowsUpdated /\ getData.kind = "object") => getData' = getData]_vars

\* C2: the promise of loadProtocolData never rejects, whatever the fetch, the
\* body or a renderer does: no call ever ends "rejected".
C2_NeverRejects == last.outcome # "rejected"

\* a renderer threw on a parsed object and the call still resolved
C2_Witness ==
    /\ last.op = "jsonResolve"
    /\ last.outcome = "offline"
    /\ data.kind = "object"

\* C3: with a successful snapshot on display, a call that ends in the offline
\* outcome leaves the four rendered sections as they were and puts the offline
\* marker in the indicator.
C3_FailedFetchKeepsSections ==
    [][(EndsOffline /\ ShowsUpdated) =>
        /\ \A m \in Sections : dom'[m] = dom[m]
        /\ "pm-last-updated" \in page => dom'["pm-last-updated"].kind = "offline"]_vars

\* C4: at most one interval is live, and it is the one this.refreshTimer holds.
C4_AtMostOneTimer ==
    /\ Cardinality(DOMAIN timers) <= 1
    /\ DOMAIN timers \subseteq {refreshTimer}

\* startAutoRefresh was called with a timer running, and one timer is live
C4_Witness ==
    /\ last.op = "startAutoRefresh"
    /\ last.outcome = "restarted"
    /\ Cardinality(DOMAIN timers) = 1

\* the step called startAutoRefresh: directly, or as the continuation of init
CallsStart ==
    \/ last'.op = "startAutoRefresh"
    \/ last'.origin = "init" /\ last'.outcome \in {"success", "offline"}

\* C5 as claimed: every call of startAutoRefresh starts one fetch at once.
C5_StartFetchesAtOnce ==
    [][last'.op = "startAutoRefresh" => InFlight' = InFlight + 1]_vars

\* C5 as amended: startAutoRefresh starts no fetch itself; it leaves one
\* interval whose first firing is a whole interval away. A timer-driven fetch
\* starts only when an interval is due, one per firing, and the interval is
\* then due again one interval later. The immediate fetch is init's.
C5_StartSchedulesOnly ==
    [][/\ last'.op = "startAutoRefresh" => runs' = runs
       /\ CallsStart =>
            /\ refreshTimer' \in DOMAIN timers'
            /\ timers'[refreshTimer'] = RefreshInterval
       /\ last'.op = "timerFire" =>
            /\ InFlight' = InFlight + 1
            /\ \E h \in DOMAIN timers :
                 timers[h] = 0 /\ timers' = [timers EXCEPT ![h] = RefreshInterval]
       /\ last'.op = "init" => InFlight' = InFlight + 1]_vars

\* startAutoRefresh has just returned: a timer is set and nothing is in flight
C5_Witness ==
    /\ last.op = "startAutoRefresh"
    /\ refreshTimer # 0
    /\ InFlight = 0

\* C6: stopAutoRefresh leaves refreshTimer null and the timer it held
\* cancelled; with no timer it changes nothing.
C6_StopCancels ==
    [][last'.op = "stopAutoRefresh" =>
        /\ refreshTimer' = 0
        /\ DOMAIN timers' = DOMAIN timers \ {refreshTimer}
        /\ refreshTimer = 0 => timers' = timers
        /\ UNCHANGED <<page, calc, data, lastUpdate, runs, dom, cachedSeeds,
                       cachedContexts, modal>>]_vars

\* stopAutoRefresh has just cancelled a running timer
C6_Witness ==
    /\ last.op = "stopAutoRefresh"
    /\ last.outcome = "cancelled"
    /\ refreshTimer = 0
    /\ DOMAIN timers = {}

\* C7: refresh starts exactly one fetch, and neither the call nor any later
\* step of its fetch touches refreshTimer or the time to the next firing.
C7_RefreshKeepsTimer ==
    [][/\ last'.op = "refresh" => InFlight' = InFlight + 1
       /\ last'.origin = "refresh" => refreshTimer' = refreshTimer /\ timers' = timers]_vars

\* a refresh has completed while a timer was running
C7_Witness ==
    /\ last.origin = "refresh"
    /\ last.outcome = "success"
    /\ refreshTimer # 0

----------------------------------------------------------------------------
(* The modal *)

\* this.cachedX && this.cachedX[index], index counted from 0
hasEntry(cache, index) == cache.kind = "array" /\ index + 1 \in DOMAIN cache.items

\* lines 560-592: the markup for the selected entry, '' when there is none
modalContent(type, index) ==
    IF type = "seed" /\ hasEntry(cachedSeeds, index)
    THEN ModalBody("seed", cachedSeeds.items[index + 1])
    ELSE IF type = "context" /\ hasEntry(cachedContexts, index)
    THEN ModalBody("context", cachedContexts.items[index + 1])
    ELSE ModalBody("empty", NoItem)

\* close button and backdrop get their onclick assigned; one more keydown
\* listener (a new closure each call) is added to the document
setupModalCloseHandlers(m) ==
    [m EXCEPT !.closeHandlers = TRUE, !.escListeners = @ + 1]

\* a closeModal that hides the modal and leaves the page's scroll lock
closeModal_KeepsScrollLock(m) == [m EXCEPT !.display = "none"]

closeModal(m) == [m EXCEPT !.display = "none", !.overflow = ""]

\* lines 594-599, for a modal element with its body
showModal(m, content) ==
    setupModalCloseHandlers([m EXCEPT !.body = content, !.display = "block",
                                      !.overflow = "hidden"])

ModalOp(outcome, type, index) ==
    [op |-> "openModal", outcome |-> outcome, origin |-> "", type |-> type, index |-> index]

NoLoad == UNCHANGED <<page, calc, data, lastUpdate, refreshTimer, timers, runs, dom,
                      cachedSeeds, cachedContexts>>

openModal(type, index) ==
    /\ modal.escListeners < MaxListeners
    /\ IF modal.el = "absent"
       THEN \* modal.querySelector of null: line 556 throws before the guard
            /\ modal' = modal
            /\ last' = ModalOp("threw", type, index)
       ELSE IF modal.el = "nobody"
       THEN /\ modal' = modal
            /\ last' = ModalOp("returned", type, index)
       ELSE /\ modal' = showModal(modal, modalContent(type, index))
            /\ last' = ModalOp("opened", type, index)
    /\ NoLoad

\* attachModalHandlers: a click on the maximize button rendered at `index`
MaximizeClick(type, index) ==
    /\ LET shown == IF type = "seed" THEN dom["pm-projects"] ELSE dom["pm-expertise"]
       IN  /\ shown.kind = (IF type = "seed" THEN "projects" ELSE "expertise")
           /\ index + 1 \in DOMAIN shown.items
    /\ openModal(type, index)

\* the close button's onclick
CloseClick ==
    /\ modal.closeHandlers
    /\ modal.display = "block"
    /\ modal' = closeModal(modal)
    /\ last' = Op("closeClick", "closed")
    /\ NoLoad

\* the backdrop's onclick
BackdropClick ==
    /\ modal.closeHandlers
    /\ modal.display = "block"
    /\ modal' = closeModal(modal)
    /\ last' = Op("backdropClick", "closed")
    /\ NoLoad

\* keydown Escape: every escHandler on the document closes the modal and
\* removes itself
EscapeKey ==
    /\ modal.escListeners > 0
    /\ modal' = [closeModal(modal) EXCEPT !.escListeners = 0]
    /\ last' = Op("escapeKey", "closed")
    /\ NoLoad

\* lines 100 and 108 of a successful load, for the seeds of the new snapshot
RenderProjects(seeds) ==
    /\ Apply(updateProjects([St EXCEPT !.data.seeds = seeds], seeds))
    /\ last' = Op("updateProjects", "done")
    /\ UNCHANGED <<page, calc, refreshTimer, timers, runs, modal>>

\* lines 100 and 109 of a successful load, for the contexts of the new snapshot
RenderExpertise(contexts) ==
    /\ Apply(updateExpertise([St EXCEPT !.data.contexts = contexts], contexts))
    /\ last' = Op("updateExpertise", "done")
    /\ UNCHANGED <<page, calc, refreshTimer, timers, runs, modal>>

----------------------------------------------------------------------------
(* ModalSpec: renders of small snapshots, and the modal *)

ModalSeeds == {Arr(<<>>), Arr(<<Seed(1, "low"), Seed(2, "high")>>), Arr(<<Seed(3, "urgent")>>)}
ModalContexts == {Arr(<<>>), Arr(<<Ctx(1), Ctx(2)>>)}
Types == {"seed", "context"}
Indexes == 0..MaxIndex

InitWidget(snapshot, pg, m) ==
    /\ page = pg
    /\ calc = NoCalc
    /\ data = snapshot
    /\ lastUpdate = "null"
    /\ refreshTimer = 0
    /\ timers = NoTimers
    /\ runs = EmptyBag
    /\ dom = [x \in Mounts |-> Static]
    /\ cachedSeeds = Undefined
    /\ cachedContexts = Undefined
    /\ modal = m
    /\ last = Op("new", "none")

ModalInit ==
    \E el \in {"present", "nobody", "absent"} :
        InitWidget(Doc(1, "", "", "", Absent, Absent), Mounts, ModalOf(el))

ModalNext ==
    \/ \E seeds \in ModalSeeds : RenderProjects(seeds)
    \/ \E contexts \in ModalContexts : RenderExpertise(contexts)
    \/ \E type \in Types : \E index \in Indexes : openModal(type, index)
    \/ \E type \in Types : \E index \in Indexes : MaximizeClick(type, index)
    \/ CloseClick
    \/ BackdropClick
    \/ EscapeKey

ModalSpec == ModalInit /\ [][ModalNext]_vars

\* C8: openModal with no cached entry at the index (out of range, or nothing
\* cached yet) changes nothing of the modal: body, visibility, scroll lock
\* and handlers stay as they were.
C8_OutOfRangeIsNoOp ==
    [][(/\ last'.op = "openModal"
        /\ modal.el = "present"
        /\ ~(last'.type = "seed" /\ hasEntry(cachedSeeds, last'.index))
        /\ ~(last'.type = "context" /\ hasEntry(cachedContexts, last'.index)))
       => modal' = modal]_vars

\* C9: while the modal is closed no Escape listener is attached to the
\* document, however it was closed.
C9_ClosedHasNoEscListener == modal.display = "none" => modal.escListeners = 0

----------------------------------------------------------------------------
(* SortSpec: updateProjects once, on every seeds array up to MaxSeeds *)

\* the array of n seeds with priorities ps, each seed named by its position
SeedArray(n, ps) == [i \in 1..n |-> Seed(i, ps[i])]

SortInit ==
    \E n \in 0..MaxSeeds : \E ps \in [1..n -> Priorities] :
        InitWidget(Doc(1, "", "", "", Arr(SeedArray(n, ps)), Absent), Mounts, ModalClosed)

UpdateProjectsOnce ==
    /\ last.op = "new"
    /\ Apply(updateProjects(St, data.seeds))
    /\ last' = Op("updateProjects", "done")
    /\ UNCHANGED <<page, calc, refreshTimer, timers, runs, modal>>

SortNext == UpdateProjectsOnce

SortSpec == SortInit /\ [][SortNext]_vars

\* the ranks the claim gives: urgent 0, high 1, normal 2, low 3, anything else 3
ClaimedRank(p) ==
    CASE p = "urgent" -> 0 [] p = "high" -> 1 [] p = "normal" -> 2 [] OTHER -> 3

\* a comes before b in the claimed order: lower rank, or equal rank and
\* earlier in the fetched array (ids are the original positions)
ClaimedBefore(a, b) ==
    \/ ClaimedRank(a.priority) < ClaimedRank(b.priority)
    \/ ClaimedRank(a.priority) = ClaimedRank(b.priority) /\ a.id < b.id

Elems(seq) == {seq[i] : i \in DOMAIN seq}

\* C10: the rendered list holds at most 5 items, in ascending claimed rank
\* with ties in original order, and it is the first 5 of that ordering.
C10_TopFiveByPriority ==
    last.op = "updateProjects" =>
        LET shown == dom["pm-projects"].items
            all == Elems(data.seeds.items)
        IN  /\ Len(shown) = (IF Cardinality(all) < TopCount THEN Cardinality(all) ELSE TopCount)
            /\ Elems(shown) \subseteq all
            /\ \A i, j \in DOMAIN shown : i < j => ClaimedBefore(shown[i], shown[j])
            /\ \A x \in all \ Elems(shown) : \A y \in Elems(shown) : ClaimedBefore(y, x)

----------------------------------------------------------------------------
(* Helpers called on their own: one call per behaviour, the arguments      *)
(* drawn in the initial state, the returned value stored in calc.          *)

MaxText == 2

\* a text is a sequence of characters; "a" stands for every character that
\* means nothing to an HTML parser
Chars == {"a", "<", ">", "&", "\""}
Texts == UNION {[1..n -> Chars] : n \in 0..MaxText}

\* the serialisation of one character of a text node by innerHTML
serialize(c) ==
    IF c = "&" THEN "&amp;" ELSE IF c = "<" THEN "&lt;" ELSE IF c = ">" THEN "&gt;" ELSE c

\* escapeHtml(text): a sequence of characters and character references
escapeHtml(text) ==
    IF text = <<>> THEN <<>> ELSE [i \in 1..Len(text) |-> serialize(text[i])]

\* a place where a template literal interpolates a payload value:
\* escaped is whether the expression is wrapped in this.escapeHtml(),
\* attr whether the place is inside a double-quoted attribute value
Place(fn, field, line, escaped, attr) ==
    [fn |-> fn, field |-> field, line |-> line, escaped |-> escaped, attr |-> attr]

Interpolations ==
    { Place("updateCurrentState", "energy", 141, TRUE, FALSE),
      Place("updateCurrentState", "energy.display", 152, TRUE, FALSE),
      Place("updateCurrentState", "location", 164, TRUE, FALSE),
      Place("updateCurrentState", "availability", 172, TRUE, FALSE),
      Place("updateCurrentState", "focus", 182, TRUE, FALSE),
      Place("updateAbout", "avatar_url", 229, FALSE, TRUE),
      Place("updateAbout", "tagline", 242, TRUE, FALSE),
      Place("updateAbout", "role", 243, TRUE, FALSE),
      Place("updateAbout", "current_work", 244, TRUE, FALSE),
      Place("updateAbout", "bio", 245, TRUE, FALSE),
      Place("updateAbout", "philosophy", 246, TRUE, FALSE),
      Place("updateAbout", "expertise", 247, TRUE, FALSE),
      Place("updateProjects", "text", 282, TRUE, FALSE),
      Place("updateProjects", "priority class", 285, FALSE, TRUE),
      Place("updateProjects", "priority", 285, FALSE, FALSE),
      Place("updateProjects", "status class", 286, FALSE, TRUE),
      Place("updateProjects", "status", 286, FALSE, FALSE),
      Place("updateProjects", "description", 291, TRUE, FALSE),
      Place("updateProjects", "tag", 295, TRUE, FALSE),
      Place("updateExpertise", "name", 338, TRUE, FALSE),
      Place("updateExpertise", "type", 339, TRUE, FALSE),
      Place("updateExpertise", "preview", 343, TRUE, FALSE),
      Place("updateExpertise", "content", 347, TRUE, FALSE),
      Place("updateExpertise", "tag", 357, TRUE, FALSE),
      Place("openModal", "text", 565, TRUE, FALSE),
      Place("openModal", "priority class", 568, FALSE, TRUE),
      Place("openModal", "priority", 568, FALSE, FALSE),
      Place("openModal", "status class", 569, FALSE, TRUE),
      Place("openModal", "status", 569, FALSE, FALSE),
      Place("openModal", "description", 573, TRUE, FALSE),
      Place("openModal", "seed tag", 576, TRUE, FALSE),
      Place("openModal", "name", 583, TRUE, FALSE),
      Place("openModal", "type", 584, TRUE, FALSE),
      Place("openModal", "content", 585, TRUE, FALSE),
      Place("openModal", "context tag", 588, TRUE, FALSE) }

\* what the template literal puts into the markup at a place for value v
interpolate(place, v) == IF place.escaped THEN escapeHtml(v) ELSE v

\* what the HTML parser makes of one character or character reference
decode(t) ==
    IF t = "&amp;" THEN "&" ELSE IF t = "&lt;" THEN "<" ELSE IF t = "&gt;" THEN ">" ELSE t

\* the parser reads the inserted piece as the text v and as nothing else:
\* no tag opens in it and, inside an attribute value, no quote ends the value
ShownAsText(place, v, piece) ==
    /\ [i \in 1..Len(piece) |-> decode(piece[i])] = v
    /\ \A i \in 1..Len(piece) : piece[i] # "<" /\ (place.attr => piece[i] # "\"")

\* everything but calc as the constructor leaves it
Constructed ==
    /\ page = Mounts
    /\ data = NullData
    /\ lastUpdate = "null"
    /\ refreshTimer = 0
    /\ timers = NoTimers
    /\ runs = EmptyBag
    /\ dom = [m \in Mounts |-> Static]
    /\ cachedSeeds = Undefined
    /\ cachedContexts = Undefined
    /\ modal = ModalClosed
    /\ last = Op("new", "none")

\* a helper call leaves the widget alone
Returns(fn) ==
    /\ last' = Op(fn, "done")
    /\ UNCHANGED <<page, data, lastUpdate, refreshTimer, timers, runs, dom,
                   cachedSeeds, cachedContexts, modal>>

InterpolateInit ==
    \E place \in Interpolations : \E v \in Texts :
        calc = [fn |-> "interpolate", done |-> FALSE, place |-> place, input |-> v]

Interpolate ==
    /\ calc.fn = "interpolate" /\ ~calc.done
    /\ calc' = [calc EXCEPT !.done = TRUE] @@ [output |-> interpolate(calc.place, calc.input)]
    /\ Returns("interpolate")

EscapeInit == Constructed /\ InterpolateInit
EscapeNext == Interpolate
EscapeSpec == EscapeInit /\ [][EscapeNext]_vars

\* C11: every payload value interpolated into markup by updateCurrentState,
\* updateAbout, updateProjects, updateExpertise and openModal has passed
\* through escapeHtml, so that the parser shows it as literal text and never
\* reads markup in it.
C11_EveryValueEscaped ==
    calc.fn = "interpolate" /\ calc.done =>
        /\ calc.output = escapeHtml(calc.input)
        /\ ShownAsText(calc.place, calc.input, calc.output)
----------------------------------------------------------------------------
(* The preview text of an expertise card                                   *)

\* the character budget of a preview: 500 in the source, scaled down here;
\* nothing below depends on the number
PREVIEW_LENGTH == 3

MaxContent == PREVIEW_LENGTH + 3

\* "w" stands for every non-whitespace character, " " for every whitespace one
ContentChars == {"w", " "}
IsSpace(c) == c = " "

\* content.substring(0, n)
substring(content, n) == SubSeq(content, 1, IF n < Len(content) THEN n ELSE Len(content))

\* /\s+\S*$/ matches at i: a run of whitespace from i, then non-whitespace to the end
matchesAt(t, i) ==
    /\ IsSpace(t[i])
    /\ \E k \in i..Len(t) :
           /\ \A j \in i..k : IsSpace(t[j])
           /\ \A j \in (k + 1)..Len(t) : ~IsSpace(t[j])

\* t.replace(/\s+\S*$/, ''): the leftmost match is removed, no match leaves t
replaceTail(t) ==
    LET starts == {i \in 1..Len(t) : matchesAt(t, i)}
    IN  IF starts = {} THEN t
        ELSE SubSeq(t, 1, (CHOOSE i \in starts : \A j \in starts : i <= j) - 1)

needsExpansion(content) == Len(content) > PREVIEW_LENGTH

\* previewText: the text and whether '...' follows it
previewText(content) ==
    IF needsExpansion(content)
    THEN [text |-> replaceTail(substring(content, PREVIEW_LENGTH)), ellipsis |-> TRUE]
    ELSE [text |-> content, ellipsis |-> FALSE]

PreviewInit ==
    /\ Constructed
    /\ \E n \in 0..MaxContent : \E content \in [1..n -> ContentChars] :
           calc = [fn |-> "previewText", done |-> FALSE, input |-> content]

Preview ==
    /\ calc.fn = "previewText" /\ ~calc.done
    /\ calc' = [calc EXCEPT !.done = TRUE] @@ [output |-> previewText(calc.input)]
    /\ Returns("previewText")

PreviewNext == Preview
PreviewSpec == PreviewInit /\ [][PreviewNext]_vars

\* the positions up to the budget at which a word ends and whitespace follows
WordEnds(content) ==
    {p \in 1..PREVIEW_LENGTH : p < Len(content) /\ ~IsSpace(content[p]) /\ IsSpace(content[p + 1])}

\* C12: for every content longer than the budget the preview is the content
\* cut at the last whitespace boundary at or before the budget, followed by
\* an ellipsis, and the cut never falls inside a word.
C12_PreviewCutsAtLastBoundary ==
    calc.fn = "previewText" /\ calc.done /\ Len(calc.input) > PREVIEW_LENGTH =>
        LET content == calc.input
            cut == Len(calc.output.text)
        IN  /\ calc.output.ellipsis
            /\ calc.output.text = SubSeq(content, 1, cut)
            /\ ~(cut >= 1 /\ ~IsSpace(content[cut]) /\ ~IsSpace(content[cut + 1]))
            /\ \A p \in WordEnds(content) : p <= cut
----------------------------------------------------------------------------
(* GravatarHelper.getAvatarUrl called on its own                           *)

MaxEmail == 2

\* "A" and "a" are one letter in its two cases, "b" is another letter
EmailChars == {"A", "a", "b", " "}

\* the values an identity can have: a string or something else
Str(chars) == [type |-> "string", chars |-> chars]
NonStrings == {[type |-> t, chars |-> <<>>] : t \in {"undefined", "null", "number", "object"}}

toLowerCase(t) == [i \in 1..Len(t) |-> IF t[i] = "A" THEN "a" ELSE t[i]]

trim(t) ==
    LET kept == {i \in 1..Len(t) : t[i] # " "}
    IN  IF kept = {} THEN <<>>
        ELSE SubSeq(t, CHOOSE i \in kept : \A j \in kept : i <= j,
                       CHOOSE i \in kept : \A j \in kept : j <= i)

\* the same text with the letter case kept
normalized_CaseKept(t) == trim(t)

\* email.toLowerCase().trim()
normalized(t) == trim(toLowerCase(t))

\* the hexadecimal SHA-256 digest of a text: a value that is a function of
\* the text and of nothing else, different texts giving different values
sha256(t) == [digestOf |-> t]

Null == [type |-> "null"]
Url(hash, size, defaultImage) == [type |-> "url", hash |-> hash, s |-> size, d |-> defaultImage]

\* !email || typeof email !== 'string'
noIdentity(email) == email.type # "string" \/ email.chars = <<>>

GravatarHelper_getAvatarUrl(email, size, defaultImage) ==
    IF noIdentity(email) THEN Null
    ELSE Url(sha256(normalized(email.chars)), size, defaultImage)

Sizes == {128, 256}
DefaultImages == {"identicon"}

\* two calls with the same size and default image
AvatarInit ==
    /\ Constructed
    /\ \E n1, n2 \in 0..MaxEmail :
       \E e1 \in {Str(t) : t \in [1..n1 -> EmailChars]} \cup (IF n1 = 0 THEN NonStrings ELSE {}) :
       \E e2 \in {Str(t) : t \in [1..n2 -> EmailChars]} \cup (IF n2 = 0 THEN NonStrings ELSE {}) :
       \E size \in Sizes : \E d \in DefaultImages :
           calc = [fn |-> "getAvatarUrl", done |-> FALSE, input |-> <<e1, e2>>,
                   size |-> size, defaultImage |-> d]

GetAvatarUrl ==
    /\ calc.fn = "getAvatarUrl" /\ ~calc.done
    /\ calc' = [calc EXCEPT !.done = TRUE] @@
               [output |-> [i \in 1..2 |->
                   GravatarHelper_getAvatarUrl(calc.input[i], calc.size, calc.defaultImage)]]
    /\ Returns("getAvatarUrl")

AvatarNext == GetAvatarUrl
AvatarSpec == AvatarInit /\ [][AvatarNext]_vars

\* the identity is a string with something left after lowercasing and trimming
IsEmail(e) == e.type = "string" /\ normalized(e.chars) # <<>>

\* C13: getAvatarUrl returns null for every identity that is empty, is not
\* a string, or is empty after normalization (whitespace only), and no URL it
\* returns embeds the digest of the empty text.
C13_NoUrlForEmptyIdentity ==
    calc.fn = "getAvatarUrl" /\ calc.done =>
        \A i \in 1..2 :
            /\ ~IsEmail(calc.input[i]) => calc.output[i] = Null
            /\ calc.output[i].type = "url" => calc.output[i].hash # sha256(<<>>)

\* C14: two email strings that are equal after lowercasing and trimming get
\* the identical URL from getAvatarUrl when called with the same size and
\* default image.
C14_NormalizationInvariant ==
    calc.fn = "getAvatarUrl" /\ calc.done
      /\ IsEmail(calc.input[1]) /\ IsEmail(calc.input[2])
      /\ trim(toLowerCase(calc.input[1].chars)) = trim(toLowerCase(calc.input[2].chars)) =>
        /\ calc.output[1].type = "url"
        /\ calc.output[1] = calc.output[2]

\* two emails that differ in case and in surrounding whitespace were looked up
C14_Witness ==
    /\ calc.fn = "getAvatarUrl" /\ calc.done
    /\ calc.input[1] = Str(<<" ", "A">>) /\ calc.input[2] = Str(<<"a">>)
    /\ calc.output[1] = calc.output[2]
    /\ calc.output[1].type = "url"
----------------------------------------------------------------------------
(* The avatar of the about section *)

\* the fetched document with the given id
DocOf(i) == CHOOSE b \in Bodies : b.id = i

\* C15: the about section shows the document's precomputed avatar_url
\* unchanged whenever that is non-empty, also when an email is present, and
\* no digest is computed for such a document; otherwise with an email it
\* shows the URL derived from the email's digest; otherwise no avatar.
C15_AvatarPolicy ==
    /\ dom["pm-about"].kind = "about" =>
           LET d == DocOf(dom["pm-about"].src)
               shown == dom["pm-about"]
           IN  /\ d.avatar_url # "" => shown.avatar = "precomputed" /\ shown.of = d.avatar_url
               /\ d.avatar_url = "" /\ d.email # "" =>
                      shown.avatar = "gravatar" /\ shown.of = d.email
               /\ d.avatar_url = "" /\ d.email = "" => shown.avatar = "none"
    /\ \A r \in BagToSet(runs) : r.pc = "digest" => r.doc.avatar_url = ""

\* a document with both avatar_url and email has just been rendered
C15_Witness ==
    /\ last.op = "jsonResolve" /\ last.outcome = "success"
    /\ dom["pm-about"].kind = "about"
    /\ DocOf(dom["pm-about"].src).avatar_url # ""
    /\ DocOf(dom["pm-about"].src).email # ""
    /\ dom["pm-about"].avatar = "precomputed"
----------------------------------------------------------------------------
(* formatRelativeTime called on its own                                    *)

\* how far around each threshold and each multiple of a unit the elapsed
\* seconds are sampled
TimeSlack == 1

Near(b) == (b - TimeSlack)..(b + TimeSlack)

\* elapsed seconds: around now (the future included), every whole minute up
\* to two hours, every whole hour up to two days, every whole day up to eight
SampleSeconds ==
    UNION ({Near(60 * k) : k \in 0..120} \cup {Near(3600 * k) : k \in 2..48}
           \cup {Near(86400 * k) : k \in 2..8})

\* the argument: a falsy value, something new Date() cannot parse, or a time
\* that is `elapsed` milliseconds before now
Timestamps ==
    {[kind |-> k, elapsed |-> 0] : k \in {"falsy", "invalid"}}
    \cup {[kind |-> "time", elapsed |-> 1000 * sec + ms] : sec \in SampleSeconds, ms \in {0, 999}}

Fixed(text) == [text |-> text, n |-> 0]
Counted(n, text) == [text |-> text, n |-> n]

\* a version whose first comparison is inclusive
formatRelativeTime_Inclusive(timestamp) ==
    IF timestamp.kind = "falsy" THEN Fixed("recently")
    ELSE IF timestamp.kind = "invalid" THEN Fixed("recently")
    ELSE LET seconds == timestamp.elapsed \div 1000
         IN  IF seconds <= 60 THEN Fixed("just now")
             ELSE IF seconds < 120 THEN Fixed("1 minute ago")
             ELSE IF seconds < 3600 THEN Counted(seconds \div 60, "minutes ago")
             ELSE IF seconds < 7200 THEN Fixed("1 hour ago")
             ELSE IF seconds < 86400 THEN Counted(seconds \div 3600, "hours ago")
             ELSE IF seconds < 172800 THEN Fixed("yesterday")
             ELSE IF seconds < 604800 THEN Counted(seconds \div 86400, "days ago")
             ELSE Fixed("recently")

formatRelativeTime(timestamp) ==
    IF timestamp.kind = "falsy" THEN Fixed("recently")
    \* new Date(x) is invalid: seconds is NaN and every comparison is false
    ELSE IF timestamp.kind = "invalid" THEN Fixed("recently")
    \* Math.floor((now - date) / 1000)
    ELSE LET seconds == timestamp.elapsed \div 1000
         IN  IF seconds < 60 THEN Fixed("just now")
             ELSE IF seconds < 120 THEN Fixed("1 minute ago")
             ELSE IF seconds < 3600 THEN Counted(seconds \div 60, "minutes ago")
             ELSE IF seconds < 7200 THEN Fixed("1 hour ago")
             ELSE IF seconds < 86400 THEN Counted(seconds \div 3600, "hours ago")
             ELSE IF seconds < 172800 THEN Fixed("yesterday")
             ELSE IF seconds < 604800 THEN Counted(seconds \div 86400, "days ago")
             ELSE Fixed("recently")

TimeInit ==
    /\ Constructed
    /\ \E t \in Timestamps : calc = [fn |-> "formatRelativeTime", done |-> FALSE, input |-> t]

FormatRelativeTime ==
    /\ calc.fn = "formatRelativeTime" /\ ~calc.done
    /\ calc' = [calc EXCEPT !.done = TRUE] @@ [output |-> formatRelativeTime(calc.input)]
    /\ Returns("formatRelativeTime")

TimeNext == FormatRelativeTime
TimeSpec == TimeInit /\ [][TimeNext]_vars

\* the elapsed whole seconds of a call
ElapsedSeconds == calc.input.elapsed \div 1000

----------------------------------------------------------------------------
(* Overlapping calls of loadProtocolData *)

\* this step is the completion of a response: its body has been parsed
ResponseCompletes(body) == \E r \in BagToSet(runs) : JsonResolve(r, body)

\* C17: calls in flight together are not serialized; the snapshot is the
\* document of the response that completed last: every completing response
\* overwrites it, whichever call was started first, and nothing else, in
\* particular no later step of a call whose response completed earlier,
\* replaces it.
C17_LastResponseWins ==
    [][IF last'.op = "jsonResolve"
       THEN \A body \in Bodies : ResponseCompletes(body) =>
                getData'.kind = body.kind /\ getData'.id = body.id
       ELSE getData'.kind = getData.kind /\ getData'.id = getData.id]_vars

\* two calls overlapped and both succeeded: the one whose response (document
\* 2) completed first has finished last, and the snapshot is document 1
C17_Witness ==
    /\ last.op = "digestResolve" /\ last.outcome = "success"
    /\ dom["pm-about"].kind = "about" /\ dom["pm-about"].src = 2
    /\ getData.id = 1
    /\ InFlight = 0
----------------------------------------------------------------------------
(* The order of a successful load *)

\* the snapshot is this document and nothing of an earlier one: every field
\* is the document's, the seeds being its seeds in some order
IsSnapshotOf(body) ==
    /\ data'.kind = body.kind /\ data'.id = body.id
    /\ data'.current_state = body.current_state
    /\ data'.avatar_url = body.avatar_url /\ data'.email = body.email
    /\ data'.contexts = body.contexts
    /\ data'.seeds.kind = body.seeds.kind
    /\ Len(data'.seeds.items) = Len(body.seeds.items)
    /\ Elems(data'.seeds.items) = Elems(body.seeds.items)

Shows(m, kind) == m \in page => dom'[m].kind = kind
Untouched(ms) == \A m \in ms : dom'[m] = dom[m]
IsList(a) == a.kind = "array" /\ Len(a.items) > 0

\* C18: when a response's document arrives it replaces the whole snapshot
\* before anything is rendered, and the renderers run one after the other in
\* the order current state, about, projects, expertise, indicator: while
\* about awaits its digest only the current state has been rendered; when it
\* resumes the current state is not rendered again; a renderer that throws
\* leaves everything before it rendered and everything after it untouched;
\* a load that succeeds ends with the indicator.
C18_ReplaceThenRenderInOrder ==
    [][/\ last'.op = "jsonResolve" =>
              \A body \in Bodies : ResponseCompletes(body) =>
                  /\ IsSnapshotOf(body)
                  /\ last'.outcome = "pending" =>
                         /\ body.current_state # "" /\ "pm-current-state" \in page =>
                                dom'["pm-current-state"].of = body.current_state
                         /\ Untouched({"pm-about", "pm-projects", "pm-expertise",
                                       "pm-last-updated"})
                  /\ last'.outcome = "offline" /\ body.kind = "object" =>
                         /\ Shows("pm-about", "about")
                         /\ Shows("pm-last-updated", "offline")
                         /\ "pm-projects" \in page /\ body.seeds.kind = "other" =>
                                Untouched({"pm-expertise"})
                         /\ "pm-projects" \in page /\ IsList(body.seeds) =>
                                dom'["pm-projects"].kind = "projects"
                  /\ last'.outcome = "success" =>
                         /\ Shows("pm-about", "about")
                         /\ Shows("pm-last-updated", "updated")
       /\ last'.op = "digestResolve" =>
              /\ Untouched({"pm-current-state"})
              /\ dom'["pm-about"].kind = "about"
              /\ last'.outcome = "success" => Shows("pm-last-updated", "updated")]_vars

\* the expertise renderer threw on a document whose projects were rendered
C18_Witness ==
    /\ last.op = "jsonResolve" /\ last.outcome = "offline"
    /\ getData.id = 4
    /\ dom["pm-projects"].kind = "projects"
    /\ dom["pm-projects"].items = <<Seed(5, "high")>>
----------------------------------------------------------------------------
(* Malformed fields, and what rendering does to the snapshot *)

\* C19: a 2xx JSON document with a field of an unexpected shape (seeds or
\* contexts that is not an array) does not abort the render: the load does
\* not take the offline path and the last-updated indicator is rendered.
C19_MalformedFieldIsSkipped ==
    last.op = "jsonResolve" /\ getData.kind = "object"
      /\ (getData.seeds.kind = "other" \/ getData.contexts.kind = "other") =>
        /\ last.outcome = "success"
        /\ "pm-last-updated" \in page => dom["pm-last-updated"].kind = "updated"

\* C20: updateProjects leaves the seeds array it was given, which is
\* getData().seeds, as it was fetched: the same seeds in the same order
\* (SeedArray gives the seed at position i the id i).
C20_SeedsArrayUnchanged ==
    last.op = "updateProjects" =>
        \A i \in DOMAIN getData.seeds.items : getData.seeds.items[i].id = i
----------------------------------------------------------------------------
(* The cached sequences and the modal *)

\* the list a section displays: its items, none for the placeholder and for
\* the static markup
Displayed(m, kind) == IF dom[m].kind = kind THEN dom[m].items ELSE <<>>

\* C21: after every run of updateProjects and updateExpertise, a run that
\* renders the empty placeholder included, cachedSeeds and cachedContexts
\* are the lists currently displayed, and openModal(type, i) shows the entry
\* displayed at position i, never an entry of an earlier snapshot.
C21_CacheIsDisplayedList ==
    /\ last.op = "updateProjects" =>
           cachedSeeds.items = Displayed("pm-projects", "projects")
    /\ last.op = "updateExpertise" =>
           cachedContexts.items = Displayed("pm-expertise", "expertise")
    /\ last.op = "openModal" /\ last.outcome = "opened" =>
           LET shown == IF last.type = "seed" THEN Displayed("pm-projects", "projects")
                        ELSE Displayed("pm-expertise", "expertise")
           IN  modal.body.kind # "empty" =>
                   /\ last.index + 1 \in DOMAIN shown
                   /\ modal.body.item = shown[last.index + 1]
\* the modal is shown
IsOpen(m) == m.display = "block"

\* the step is openModal(type, index) for an entry that is cached
OpensCachedEntry ==
    /\ last'.op = "openModal"
    /\ \/ last'.type = "seed" /\ hasEntry(cachedSeeds, last'.index)
       \/ last'.type = "context" /\ hasEntry(cachedContexts, last'.index)

\* C22: the modal is Closed (hidden, page scrollable) or Open (shown, page
\* scroll locked) and nothing else; while Open its close button, its backdrop
\* and the Escape key are armed, and each of them leads to Closed; openModal
\* with a cached entry while Open replaces the content and stays Open. There
\* is one modal element, so one surface.
C22_ModalTwoStates ==
    [][/\ modal'.display \in {"none", "block"}
       /\ IsOpen(modal') <=> modal'.overflow = "hidden"
       /\ IsOpen(modal') => modal'.closeHandlers /\ modal'.escListeners > 0
       /\ IsOpen(modal) /\ last'.op \in {"closeClick", "backdropClick", "escapeKey"} =>
              ~IsOpen(modal') /\ modal'.overflow = ""
       /\ IsOpen(modal) /\ OpensCachedEntry =>
              /\ IsOpen(modal')
              /\ modal'.body = modalContent(last'.type, last'.index)
              /\ modal'.body.kind = last'.type]_vars

\* an open modal showing a context has just been closed by a backdrop click
C22_Witness ==
    /\ last.op = "backdropClick"
    /\ ~IsOpen(modal) /\ modal.overflow = ""
    /\ modal.body.kind = "context"
----------------------------------------------------------------------------
(* Stopping while init is still loading *)

\* C23: once stopAutoRefresh() has been called no timer-driven fetch starts
\* until startAutoRefresh() or init() is called again. A timer-driven fetch
\* starts from a live interval only, so: the step after a call of
\* stopAutoRefresh(), unless it is a call of startAutoRefresh() or init(),
\* leaves no interval alive - also when an earlier init() is still awaiting
\* its first fetch.
C23_NoTimerAfterStop ==
    [][last.op = "stopAutoRefresh" /\ last'.op \notin {"startAutoRefresh", "init"} =>
           DOMAIN timers' = {} /\ refreshTimer' = 0]_vars
----------------------------------------------------------------------------
(* OverlapSpec: the refresh life cycle when every fetch succeeds: every     *)
(* response is ok and carries a well-formed document, every digest resolves *)

GoodBodies == {Doc1, Doc2}

OverlapNext ==
    \/ init
    \/ refresh
    \/ StartAutoRefresh
    \/ StopAutoRefresh
    \/ Tick
    \/ \E h \in Handles : TimerFire(h)
    \/ \E r \in BagToSet(runs) : FetchOk(r)
    \/ \E r \in BagToSet(runs) : \E body \in GoodBodies : JsonResolve(r, body)
    \/ \E r \in BagToSet(runs) : DigestResolve(r)

OverlapSpec == Init /\ [][OverlapNext]_vars

\* the section is not on the page or was produced from document d
StateFrom(d) ==
    "pm-current-state" \in page => dom["pm-current-state"].of = d.current_state
AboutFrom(d) ==
    "pm-about" \in page => dom["pm-about"].kind = "about" /\ dom["pm-about"].src = d.id
ProjectsFrom(d) ==
    "pm-projects" \in page => dom["pm-projects"].items = slice(d.seeds.items, TopCount)
ExpertiseFrom(d) ==
    "pm-expertise" \in page => dom["pm-expertise"].items = d.contexts.items

\* C24: whenever no refresh is in flight and every completed refresh
\* succeeded, the current-state, about, projects and expertise sections were
\* all produced from the document getData() returns, also after two
\* refreshes that overlapped.
C24_SectionsMatchSnapshot ==
    InFlight = 0 /\ getData.kind = "object" =>
        /\ StateFrom(getData)
        /\ AboutFrom(getData)
        /\ ProjectsFrom(getData)
        /\ ExpertiseFrom(getData)
====
